---- MODULE Spec2Model ----
(***************************************************************************)
(* vercel-deployment-downloader (src/src/index.ts): the init() flow, the   *)
(* deployment source guard, the file tree materializer (parseFileTree,     *)
(* parseFileTreeEntry, downloadFile), the file content fetcher and         *)
(* countFileTreeLength, as a state machine over the local disk, the two    *)
(* output streams and the requests sent to the API.                        *)
(***************************************************************************)
EXTENDS Integers, Sequences, FiniteSets, TLC

(***************************************************************************)
(* Bounds of the model.                                                    *)
(***************************************************************************)
\* the largest number of entries (at all levels) of a deployment file tree
MaxNodes == 3
\* the longest `data` string of a file content payload (SpecFetcher)
MaxDataLen == 3

(***************************************************************************)
(* Data: FileTree (src/src/types.ts).  An optional field is a flag and a   *)
(* value.  Sibling names are distinct (a file tree lists a file system):   *)
(* the k-th entry of a children list is named NameOf(k).                   *)
(***************************************************************************)
NameSeq == <<"a", "b", "c", "d", "e", "f">>

NameOf(k) == NameSeq[k]

OtherTypes == {"symlink", "lambda"}

FileUids == {"u1", "u2", "u3"}

FileEntry(k, uid) ==
  [name |-> NameOf(k), type |-> "file", uid |-> uid,
   hasChildren |-> FALSE, children |-> <<>>]

OtherEntry(k, t) ==
  [name |-> NameOf(k), type |-> t, uid |-> "none",
   hasChildren |-> FALSE, children |-> <<>>]

DirEntry(k, hasCh, ch) ==
  [name |-> NameOf(k), type |-> "directory", uid |-> "none",
   hasChildren |-> hasCh, children |-> ch]

RECURSIVE Forests(_, _)
RECURSIVE Entries(_, _)
\* the children lists of exactly n entries whose first entry is the k-th sibling
Forests(n, k) ==
  IF n = 0 THEN {<<>>}
  ELSE UNION { { <<e>> \o rest : e \in Entries(m, k), rest \in Forests(n - m, k + 1) }
               : m \in 1..n }

\* the entries at sibling position k that hold exactly m entries, themselves included
Entries(m, k) ==
  IF m = 1
  THEN { FileEntry(k, u) : u \in FileUids }
       \cup { OtherEntry(k, t) : t \in OtherTypes }
       \cup { DirEntry(k, FALSE, <<>>), DirEntry(k, TRUE, <<>>) }
  ELSE { DirEntry(k, TRUE, ch) : ch \in Forests(m - 1, 1) }

FileTrees == UNION { Forests(n, 1) : n \in 0..MaxNodes }

(***************************************************************************)
(* The local file system.  A path is the sequence of names below the       *)
(* output directory (<<>> is the output directory itself); a disk maps     *)
(* the paths that exist to what is there.                                  *)
(***************************************************************************)
Dir == [kind |-> "dir", body |-> <<>>]

File(bytes) == [kind |-> "file", body |-> bytes]

Front(p) == SubSeq(p, 1, Len(p) - 1)

Prefixes(p) == { SubSeq(p, 1, n) : n \in 0..Len(p) }

\* path.resolve(path, name) for a plain name
resolve(path, name) == Append(path, name)

\* fs.existsSync
existsSync(d, p) == p \in DOMAIN d

\* fs.lstatSync(p).isDirectory()
isDirectory(d, p) == d[p].kind = "dir"

\* fs.mkdirSync(p, {recursive: true}) throws when a prefix of p is a file
mkdirFails(d, p) == \E q \in Prefixes(p) : existsSync(d, q) /\ ~isDirectory(d, q)

\* fs.mkdirSync(p, {recursive: true}): p and its missing ancestors become directories
mkdirSync(d, p) ==
  [q \in DOMAIN d \cup Prefixes(p) |-> IF q \in DOMAIN d THEN d[q] ELSE Dir]

\* fs.promises.writeFile(p, body) cannot succeed: no parent directory, or p is a directory
writeMustFail(d, p) ==
  \/ ~existsSync(d, Front(p))
  \/ ~isDirectory(d, Front(p))
  \/ (existsSync(d, p) /\ isDirectory(d, p))

\* fs.promises.writeFile(p, body), fulfilled
writeFile(d, p, bytes) ==
  [q \in DOMAIN d \cup {p} |-> IF q = p THEN File(bytes) ELSE d[q]]

\* how a writeFile may end: fulfilled, rejected with the disk untouched, or
\* rejected after the file was opened (and so truncated)
WriteOutcomes(d, p) ==
  IF writeMustFail(d, p) THEN {"untouched"} ELSE {"ok", "untouched", "truncated"}

(***************************************************************************)
(* Buffer.from(data, 'base64').  A string is its sequence of characters.   *)
(***************************************************************************)
B64Chars ==
  <<"A","B","C","D","E","F","G","H","I","J","K","L","M","N","O","P",
    "Q","R","S","T","U","V","W","X","Y","Z","a","b","c","d","e","f",
    "g","h","i","j","k","l","m","n","o","p","q","r","s","t","u","v",
    "w","x","y","z","0","1","2","3","4","5","6","7","8","9","+","/">>

B64Index(c) == (CHOOSE i \in 1..Len(B64Chars) : B64Chars[i] = c) - 1

\* the characters before the first "="
RECURSIVE B64Significant(_)
B64Significant(s) ==
  IF s = <<>> \/ Head(s) = "=" THEN <<>>
  ELSE <<B64Index(Head(s))>> \o B64Significant(Tail(s))

RECURSIVE B64Bytes(_)
B64Bytes(x) ==
  IF Len(x) >= 4
  THEN LET n == x[1] * 262144 + x[2] * 4096 + x[3] * 64 + x[4]
       IN <<n \div 65536, (n \div 256) % 256, n % 256>> \o B64Bytes(SubSeq(x, 5, Len(x)))
  ELSE IF Len(x) = 3
  THEN LET n == x[1] * 4096 + x[2] * 64 + x[3]
       IN <<n \div 1024, (n \div 4) % 256>>
  ELSE IF Len(x) = 2
  THEN <<(x[1] * 64 + x[2]) \div 16>>
  ELSE <<>>

BufferFromBase64(s) == B64Bytes(B64Significant(s))

(***************************************************************************)
(* The file content fetcher (fileContentFetcher) and countFileTreeLength.  *)
(***************************************************************************)
\* a response of the file content endpoint: it arrived and parsed as JSON or
\* not (fetch or response.json() rejected), and which fields its JSON has
Payload(arrived, hasData, data, hasError) ==
  [arrived |-> arrived, hasData |-> hasData, data |-> data, hasError |-> hasError]

\* JavaScript truthiness of result.data (absent, or a string)
TruthyData(r) == r.hasData /\ r.data # <<>>

\* JavaScript truthiness of result.error (absent, or an object)
TruthyError(r) == r.hasError

Returned(body, fileName) ==
  [threw |-> FALSE, error |-> "", body |-> body, fileName |-> fileName]

Thrown(msg) == [threw |-> TRUE, error |-> msg, body |-> <<>>, fileName |-> ""]

\* the function fileContentFetcher returns, applied to `file`, given the response
fileContentFetcher(file, r) ==
  IF ~r.arrived THEN Thrown("FetchError")
  ELSE IF TruthyData(r) THEN Returned(BufferFromBase64(r.data), file.name)
  ELSE IF TruthyError(r) THEN Thrown("Error fetching file contents")
  ELSE Thrown("Unexpected response format")

\* a variant of countFileTreeLength that tests the type only: a directory without
\* a children field counts 0
RECURSIVE countFileTreeLength_TypeOnly(_)
countFileTreeLength_TypeOnly(fileTree) ==
  IF fileTree = <<>> THEN 0
  ELSE LET entry == Head(fileTree)
       IN (IF entry.type = "directory"
           THEN countFileTreeLength_TypeOnly(entry.children)
           ELSE 1)
          + countFileTreeLength_TypeOnly(Tail(fileTree))

RECURSIVE countFileTreeLength(_)
countFileTreeLength(fileTree) ==
  IF fileTree = <<>> THEN 0
  ELSE LET entry == Head(fileTree)
       IN (IF entry.hasChildren /\ entry.type = "directory"
           THEN countFileTreeLength(entry.children)
           ELSE 1)
          + countFileTreeLength(Tail(fileTree))

(***************************************************************************)
(* The environment: the access token, the API's answers, the prompts.      *)
(***************************************************************************)
\* process.env.VERCEL_ACCESS_TOKEN: unset, empty, or a token
Tokens ==
  { [set |-> FALSE, value |-> ""], [set |-> TRUE, value |-> ""],
    [set |-> TRUE, value |-> "tok"] }

TeamIds == {"null", "team_1"}

\* what the file content endpoint answers for each uid: "hi" in base64 for u1, "a" in
\* base64 for u3, an error for u2; the same answer whenever it is asked
Server(uid) ==
  IF uid = "u1" THEN Payload(TRUE, TRUE, <<"a", "G", "k", "=">>, FALSE)
  ELSE IF uid = "u3" THEN Payload(TRUE, TRUE, <<"Y", "Q", "=", "=">>, FALSE)
  ELSE Payload(TRUE, FALSE, <<>>, TRUE)

\* Deployment (src/src/types.ts); the prompt yields undefined when it is cancelled.
\* meta.githubCommitRepo, when it is there, is the name of a repository (not empty);
\* a key that is not there reads as undefined
Deployment(defined, source, hasMeta, hasRepo, inspectorUrl) ==
  [defined |-> defined, uid |-> "dpl_1", url |-> "app.vercel.app", source |-> source,
   hasMeta |-> hasMeta,
   meta |-> [githubCommitRepo |-> IF hasRepo THEN "repo" ELSE "undefined",
             githubCommitOrg |-> IF hasRepo THEN "org" ELSE "undefined",
             githubCommitSha |-> IF hasRepo THEN "sha" ELSE "undefined"],
   hasRepo |-> hasMeta /\ hasRepo, inspectorUrl |-> inspectorUrl]

NoDeployment == Deployment(FALSE, "undefined", FALSE, FALSE, "null")

Deployments ==
  { Deployment(TRUE, "git", TRUE, TRUE, "https://vercel.com/inspect"),
    Deployment(TRUE, "git", TRUE, FALSE, "https://vercel.com/inspect"),
    Deployment(TRUE, "git", FALSE, FALSE, "https://vercel.com/inspect"),
    Deployment(TRUE, "git", FALSE, FALSE, "null"),
    Deployment(TRUE, "cli", FALSE, FALSE, "https://vercel.com/inspect"),
    Deployment(TRUE, "undefined", TRUE, TRUE, "https://vercel.com/inspect"),
    NoDeployment }

\* the disk before the program runs: no output directory, or one left by an
\* earlier download (the user then confirms the overwrite)
Bytes_x == <<120>>

InitialDisks ==
  { <<>>,
    (<<>> :> Dir),
    (<<>> :> Dir) @@ (<<"a">> :> Dir),
    (<<>> :> Dir) @@ (<<"a">> :> File(Bytes_x)),
    (<<>> :> Dir) @@ (<<"b">> :> Dir),
    (<<>> :> Dir) @@ (<<"a">> :> Dir) @@ (<<"a", "a">> :> Dir),
    (<<>> :> Dir) @@ (<<"a">> :> Dir) @@ (<<"a", "a">> :> File(Bytes_x)) }

\* a line of console.log / console.error output
Line(tag, path, text) == [tag |-> tag, path |-> path, text |-> text, n |-> 0]

\* a line that prints a number
LineN(tag, n) == [tag |-> tag, path |-> <<>>, text |-> <<>>, n |-> n]

Call(api, uid, team) == [api |-> api, uid |-> uid, teamId |-> team]

(***************************************************************************)
(* State.                                                                  *)
(***************************************************************************)
VARIABLES
  token,          \* process.env.VERCEL_ACCESS_TOKEN
  disk,           \* the local file system below (and including) the output directory
  pc,             \* where init() stands; "rejected": its promise rejected; "exited"
  error,          \* the error init() rejected with
  exitCode,       \* the exit status of the process once pc = "exited" (-1 before)
  teamId,         \* chooseTeam.value
  deployment,     \* chooseDeployment.value
  files,          \* the tree getDeploymentFiles returned
  totalFileTreeLength,
  stdout,         \* the lines of console.log
  stderr,         \* the lines of console.error
  apiCalls,       \* the requests sent to the API, in order
  stack,          \* the parseFileTree calls in progress: the list, the path, the loop index
  inflightFetch,  \* the file content requests awaited
  inflightWrite,  \* the writeFile promises pending
  run,            \* 1, or 2 once parseFileTree was called again (SpecTwice)
  disk0,          \* history: the disk when the current parseFileTree call began
  diskRun1,       \* history: the disk when the first parseFileTree call ended
  mkdirs,         \* history: the mkdirSync calls (the run, the path, whether it threw)
  skipped,        \* history: the downloadFile calls that returned early (the run, the path)
  fetched,        \* history: the content fetches that returned (the run, the path, the bytes)
  fetchFailed,    \* history: the content fetches that threw (the run, the path, the name)
  writes,         \* history: the writeFile calls that settled, with their outcome
  payload,        \* SpecFetcher: the response handed to the fetcher
  fetchResult     \* SpecFetcher: what the fetcher did with it

vars ==
  <<token, disk, pc, error, exitCode, teamId, deployment, files, totalFileTreeLength,
    stdout, stderr, apiCalls, stack, inflightFetch, inflightWrite, run, disk0, diskRun1,
    mkdirs, skipped, fetched, fetchFailed, writes, payload, fetchResult>>

envVars == <<token, payload, fetchResult>>

histVars == <<run, disk0, diskRun1, mkdirs, skipped, fetched, fetchFailed, writes>>

walkVars == <<stack, inflightFetch, inflightWrite>>

NoPayload == Payload(FALSE, FALSE, <<>>, FALSE)

NoResult == [threw |-> FALSE, error |-> "none", body |-> <<>>, fileName |-> ""]

Init ==
  /\ token \in Tokens
  /\ disk \in InitialDisks
  /\ pc = "start"
  /\ error = ""
  /\ exitCode = -1
  /\ teamId = "null"
  /\ deployment = NoDeployment
  /\ files = <<>>
  /\ totalFileTreeLength = -1
  /\ stdout = <<>>
  /\ stderr = <<>>
  /\ apiCalls = <<>>
  /\ stack = <<>>
  /\ inflightFetch = {}
  /\ inflightWrite = {}
  /\ run = 1
  /\ disk0 = disk
  /\ diskRun1 = disk
  /\ mkdirs = {}
  /\ skipped = {}
  /\ fetched = {}
  /\ fetchFailed = {}
  /\ writes = {}
  /\ payload = NoPayload
  /\ fetchResult = NoResult

(***************************************************************************)
(* init(): each action is one awaited operation and the synchronous code   *)
(* that follows it.  A throw rejects init()'s promise.                     *)
(***************************************************************************)
\* init() rejects with e: nothing after the throwing statement runs
Reject(e) ==
  /\ pc' = "rejected"
  /\ error' = e
  /\ stack' = <<>>

\* const vercelAccessToken = getAccessToken()
GetAccessToken ==
  /\ pc = "start"
  /\ IF ~(token.set /\ token.value # "")
     THEN Reject("Vercel Access Tokens are required")
     ELSE pc' = "outdir" /\ UNCHANGED <<error, stack>>
  /\ UNCHANGED <<disk, exitCode, teamId, deployment, files, totalFileTreeLength, stdout,
                 stderr, apiCalls, inflightFetch, inflightWrite>>
  /\ UNCHANGED <<envVars, histVars>>

\* await getOutputDirectory(): the overwrite question is asked when the directory exists
GetOutputDirectory ==
  /\ pc = "outdir"
  /\ \E overwrite \in BOOLEAN :
       IF existsSync(disk, <<>>) /\ ~overwrite
       THEN Reject("Exiting.")
       ELSE pc' = "user" /\ UNCHANGED <<error, stack>>
  /\ UNCHANGED <<disk, exitCode, teamId, deployment, files, totalFileTreeLength, stdout,
                 stderr, apiCalls, inflightFetch, inflightWrite>>
  /\ UNCHANGED <<envVars, histVars>>

\* await getUser(token), await getTeams(token): the request, then the answer or a
\* transport failure
GetUser ==
  /\ pc = "user"
  /\ apiCalls' = Append(apiCalls, Call("user", "", "null"))
  /\ \E ok \in BOOLEAN :
       IF ok THEN pc' = "teams" /\ UNCHANGED <<error, stack>> ELSE Reject("FetchError")
  /\ UNCHANGED <<disk, exitCode, teamId, deployment, files, totalFileTreeLength, stdout,
                 stderr, inflightFetch, inflightWrite>>
  /\ UNCHANGED <<envVars, histVars>>

GetTeams ==
  /\ pc = "teams"
  /\ apiCalls' = Append(apiCalls, Call("teams", "", "null"))
  /\ \E ok \in BOOLEAN :
       IF ok THEN pc' = "chooseTeam" /\ UNCHANGED <<error, stack>> ELSE Reject("FetchError")
  /\ UNCHANGED <<disk, exitCode, teamId, deployment, files, totalFileTreeLength, stdout,
                 stderr, inflightFetch, inflightWrite>>
  /\ UNCHANGED <<envVars, histVars>>

\* const chooseTeam = await prompts(...)
ChooseTeam ==
  /\ pc = "chooseTeam"
  /\ teamId' \in TeamIds
  /\ pc' = "deployments"
  /\ UNCHANGED <<disk, error, exitCode, deployment, files, totalFileTreeLength, stdout,
                 stderr, apiCalls, walkVars>>
  /\ UNCHANGED <<envVars, histVars>>

\* await getDeployments(token, teamId): a list, a body with an error field, or a
\* transport failure
GetDeployments ==
  /\ pc = "deployments"
  /\ apiCalls' = Append(apiCalls, Call("deployments", "", teamId))
  /\ \E answer \in {"list", "error", "transport"} :
       IF answer = "list" THEN pc' = "chooseDeployment" /\ UNCHANGED <<error, stack>>
       ELSE IF answer = "error"
       THEN Reject("Error has occurred when attempting to download list of deployments.")
       ELSE Reject("FetchError")
  /\ UNCHANGED <<disk, exitCode, teamId, deployment, files, totalFileTreeLength, stdout,
                 stderr, inflightFetch, inflightWrite>>
  /\ UNCHANGED <<envVars, histVars>>

\* checkDeploymentSource: the lines it prints for a deployment whose source is git
GuardLines(d) ==
  <<Line("The files of this deployment cannot be downloaded.", <<>>, <<>>)>>
  \o (IF d.hasMeta /\ d.hasRepo
      THEN <<Line("View Source on GitHub", <<>>,
                  <<"https://github.com/", d.meta.githubCommitOrg, "/",
                    d.meta.githubCommitRepo, "/tree/", d.meta.githubCommitSha>>)>>
      ELSE <<Line("View Source on Vercel", <<>>, <<d.inspectorUrl>>)>>)

\* a variant of the guard that never stops the process
GuardExits_Never(d) == FALSE

\* checkDeploymentSource: the guard under which it prints and calls process.exit(0)
GuardExits(d) == d.source = "git"

\* const chooseDeployment = await prompts(...); checkDeploymentSource(deployment);
\* log('Downloading files from deployment:', deployment.url)
ChooseDeployment ==
  /\ pc = "chooseDeployment"
  /\ \E d \in Deployments :
       /\ deployment' = d
       /\ IF ~d.defined
          THEN /\ Reject("TypeError")
               /\ UNCHANGED <<stdout, exitCode>>
          ELSE IF GuardExits(d)
          THEN /\ stdout' = stdout \o GuardLines(d)
               /\ pc' = "exited"
               /\ exitCode' = 0
               /\ UNCHANGED <<error, stack>>
          ELSE /\ stdout' = Append(stdout, Line("Downloading files from deployment:",
                                                <<>>, <<d.url>>))
               /\ pc' = "files"
               /\ UNCHANGED <<error, stack, exitCode>>
  /\ UNCHANGED <<disk, teamId, files, totalFileTreeLength, stderr, apiCalls,
                 inflightFetch, inflightWrite>>
  /\ UNCHANGED <<envVars, histVars>>

(***************************************************************************)
(* The materializer: parseFileTree, parseFileTreeEntry, downloadFile.      *)
(***************************************************************************)
Frame(fileTree, path, i) == [fileTree |-> fileTree, path |-> path, i |-> i]

\* the for loops whose list is exhausted return to their caller
RECURSIVE Unwind(_)
Unwind(s) ==
  IF s # <<>> /\ s[Len(s)].i > Len(s[Len(s)].fileTree) THEN Unwind(Front(s)) ELSE s

\* the loop of the innermost parseFileTree moves to its next entry
Advance(s) == [s EXCEPT ![Len(s)].i = @ + 1]

\* a variant in which the writeFile promise is neither returned nor awaited
Settled_WriteNotAwaited == inflightFetch = {}

\* every promise the walk awaits has settled: `await fetcher(entry)`, the returned
\* writeFile promise, `await downloadFile(...)`, `await parseFileTreeEntry(...)`
Settled == inflightFetch = {} /\ inflightWrite = {}

\* a variant of downloadFile without its try/catch
downloadFileCatches_Nothing(where) == FALSE

\* downloadFile's try/catch: a throw of `await fetcher(entry)` is caught; the promise
\* of writeFile is returned, not awaited, so its rejection settles downloadFile's own
\* promise after the try block was left
downloadFileCatches(where) == where = "fetch"

\* a variant of downloadFile without the early return
downloadFileSkips_Never(d, target) == FALSE

\* a variant of parseFileTreeEntry that calls mkdirSync without looking
callsMkdir_Always(d, target) == TRUE

\* downloadFile returns early: the target exists and is a directory
downloadFileSkips(d, target) == existsSync(d, target) /\ isDirectory(d, target)

\* parseFileTreeEntry calls mkdirSync: the directory does not exist
callsMkdir(d, target) == ~existsSync(d, target)

\* await getDeploymentFiles(token, teamId, deployment), countFileTreeLength, the
\* output directory, and the call of parseFileTree
GetDeploymentFiles ==
  /\ pc = "files"
  /\ apiCalls' = Append(apiCalls, Call("files", deployment.uid, teamId))
  /\ \E answer \in {"tree", "error", "transport"} :
       IF answer = "tree"
       THEN \E tree \in FileTrees :
              /\ files' = tree
              /\ totalFileTreeLength' = countFileTreeLength(tree)
              /\ stdout' = Append(stdout, LineN("Total files to download:",
                                                countFileTreeLength(tree)))
              /\ disk' = IF existsSync(disk, <<>>) THEN disk ELSE mkdirSync(disk, <<>>)
              /\ disk0' = disk'
              /\ stack' = Unwind(<<Frame(tree, <<>>, 1)>>)
              /\ pc' = "parse"
              /\ UNCHANGED error
       ELSE /\ Reject(IF answer = "error"
                      THEN "Error has occurred when attempting to download list of deployment files."
                      ELSE "FetchError")
            /\ UNCHANGED <<files, totalFileTreeLength, stdout, disk, disk0>>
  /\ UNCHANGED <<exitCode, teamId, deployment, stderr, inflightFetch, inflightWrite>>
  /\ UNCHANGED <<envVars, run, diskRun1, mkdirs, skipped, fetched, fetchFailed, writes>>

\* one turn of parseFileTree's loop: parseFileTreeEntry on the next entry, up to the
\* first await that suspends it
ParseEntry ==
  /\ pc = "parse"
  /\ stack # <<>>
  /\ Settled
  /\ LET top == stack[Len(stack)]
         entry == top.fileTree[top.i]
         target == resolve(top.path, entry.name)
     IN IF entry.type = "directory"
        THEN IF callsMkdir(disk, target) /\ mkdirFails(disk, target)
             THEN /\ Reject("ENOTDIR")
                  /\ mkdirs' = mkdirs \cup {[run |-> run, path |-> target, threw |-> TRUE]}
                  /\ UNCHANGED <<disk, stdout, apiCalls, inflightFetch, skipped>>
             ELSE /\ disk' = IF callsMkdir(disk, target) THEN mkdirSync(disk, target) ELSE disk
                  /\ mkdirs' = IF ~callsMkdir(disk, target) THEN mkdirs
                               ELSE mkdirs \cup {[run |-> run, path |-> target, threw |-> FALSE]}
                  /\ stack' = IF entry.hasChildren
                              THEN Unwind(Append(Advance(stack),
                                                 Frame(entry.children, target, 1)))
                              ELSE Unwind(Advance(stack))
                  /\ UNCHANGED <<pc, error, stdout, apiCalls, inflightFetch, skipped>>
        ELSE IF entry.type = "file"
        THEN IF downloadFileSkips(disk, target)
             THEN /\ skipped' = skipped \cup {[run |-> run, path |-> target]}
                  /\ stack' = Unwind(Advance(stack))
                  /\ UNCHANGED <<pc, error, disk, stdout, apiCalls, inflightFetch, mkdirs>>
             ELSE /\ stdout' = Append(stdout, Line("Downloading:", target, <<>>))
                  /\ apiCalls' = Append(apiCalls, Call("content", entry.uid, teamId))
                  /\ inflightFetch' = inflightFetch \cup {[entry |-> entry, path |-> target]}
                  /\ stack' = Unwind(Advance(stack))
                  /\ UNCHANGED <<pc, error, disk, mkdirs, skipped>>
        ELSE /\ stack' = Unwind(Advance(stack))
             /\ UNCHANGED <<pc, error, disk, stdout, apiCalls, inflightFetch, mkdirs, skipped>>
  /\ UNCHANGED <<exitCode, teamId, deployment, files, totalFileTreeLength, stderr,
                 inflightWrite>>
  /\ UNCHANGED <<envVars, run, disk0, diskRun1, fetched, fetchFailed, writes>>

\* `await fetcher(entry)` settles: the catch block, or the call of writeFile
FetchSettles ==
  /\ pc = "parse"
  /\ \E f \in inflightFetch :
       LET r == fileContentFetcher(f.entry, Server(f.entry.uid))
       IN /\ inflightFetch' = inflightFetch \ {f}
          /\ IF r.threw
             THEN /\ fetchFailed' = fetchFailed \cup
                       {[run |-> run, path |-> f.path, name |-> f.entry.name]}
                  /\ IF downloadFileCatches("fetch")
                     THEN /\ stderr' = Append(stderr, Line("Failed to download", <<>>,
                                                           <<f.entry.name, r.error>>))
                          /\ UNCHANGED <<pc, error, stack>>
                     ELSE Reject(r.error) /\ UNCHANGED stderr
                  /\ UNCHANGED <<inflightWrite, fetched>>
             ELSE /\ inflightWrite' = inflightWrite \cup
                       {[path |-> f.path, body |-> r.body, name |-> r.fileName]}
                  /\ fetched' = fetched \cup {[run |-> run, path |-> f.path, body |-> r.body]}
                  /\ UNCHANGED <<pc, error, stack, stderr, fetchFailed>>
  /\ UNCHANGED <<disk, exitCode, teamId, deployment, files, totalFileTreeLength, stdout,
                 apiCalls>>
  /\ UNCHANGED <<envVars, run, disk0, diskRun1, mkdirs, skipped, writes>>

\* the promise of fs.promises.writeFile settles
WriteSettles ==
  /\ pc = "parse"
  /\ \E w \in inflightWrite :
       \E outcome \in WriteOutcomes(disk, w.path) :
         /\ inflightWrite' = inflightWrite \ {w}
         /\ disk' = IF outcome = "ok" THEN writeFile(disk, w.path, w.body)
                    ELSE IF outcome = "truncated" THEN writeFile(disk, w.path, <<>>)
                    ELSE disk
         /\ writes' = writes \cup
              {[run |-> run, path |-> w.path, body |-> w.body, outcome |-> outcome,
                forced |-> writeMustFail(disk, w.path),
                same |-> existsSync(disk, w.path) /\ disk[w.path] = File(w.body)]}
         /\ IF outcome = "ok"
            THEN UNCHANGED <<pc, error, stack, stderr>>
            ELSE IF downloadFileCatches("write")
            THEN /\ stderr' = Append(stderr, Line("Failed to download", <<>>,
                                                  <<w.name, "write">>))
                 /\ UNCHANGED <<pc, error, stack>>
            ELSE Reject("write") /\ UNCHANGED stderr
  /\ UNCHANGED <<exitCode, teamId, deployment, files, totalFileTreeLength, stdout,
                 apiCalls, inflightFetch>>
  /\ UNCHANGED <<envVars, run, disk0, diskRun1, mkdirs, skipped, fetched, fetchFailed>>

\* parseFileTree returned and init() resolves: the process ends
InitReturns ==
  /\ pc = "parse"
  /\ stack = <<>>
  /\ Settled
  /\ pc' = "exited"
  /\ exitCode' = 0
  /\ diskRun1' = IF run = 1 THEN disk ELSE diskRun1
  /\ UNCHANGED <<disk, error, teamId, deployment, files, totalFileTreeLength, stdout,
                 stderr, apiCalls, walkVars>>
  /\ UNCHANGED <<envVars, run, disk0, mkdirs, skipped, fetched, fetchFailed, writes>>

\* init().catch((e) => { console.error(e) }): the error is printed, nothing sets an
\* exit code, and the process ends when nothing is left to run
TopLevelCatch ==
  /\ pc = "rejected"
  /\ stderr' = Append(stderr, Line("error", <<>>, <<error>>))
  /\ pc' = "exited"
  /\ exitCode' = 0
  /\ diskRun1' = IF run = 1 THEN disk ELSE diskRun1
  /\ UNCHANGED <<disk, error, teamId, deployment, files, totalFileTreeLength, stdout,
                 apiCalls, walkVars>>
  /\ UNCHANGED <<envVars, run, disk0, mkdirs, skipped, fetched, fetchFailed, writes>>

Next ==
  \/ GetAccessToken
  \/ GetOutputDirectory
  \/ GetUser
  \/ GetTeams
  \/ ChooseTeam
  \/ GetDeployments
  \/ ChooseDeployment
  \/ GetDeploymentFiles
  \/ ParseEntry
  \/ FetchSettles
  \/ WriteSettles
  \/ InitReturns
  \/ TopLevelCatch

Spec == Init /\ [][Next]_vars

(***************************************************************************)
(* SpecTwice: parseFileTree is called a second time, with the same tree,   *)
(* on the disk the first call left.                                        *)
(***************************************************************************)
Rerun ==
  /\ pc = "exited"
  /\ run = 1
  /\ totalFileTreeLength >= 0
  /\ run' = 2
  /\ pc' = "parse"
  /\ error' = ""
  /\ exitCode' = -1
  /\ disk0' = disk
  /\ stack' = Unwind(<<Frame(files, <<>>, 1)>>)
  /\ UNCHANGED <<disk, teamId, deployment, files, totalFileTreeLength, stdout, stderr,
                 apiCalls, inflightFetch, inflightWrite>>
  /\ UNCHANGED <<envVars, diskRun1, mkdirs, skipped, fetched, fetchFailed, writes>>

NextTwice == Next \/ Rerun

SpecTwice == Init /\ [][NextTwice]_vars

(***************************************************************************)
(* SpecFetcher: the function fileContentFetcher returns, applied to each   *)
(* response of a bounded set.                                              *)
(***************************************************************************)
DataChars == {"a", "G", "k", "Q", "="}

RECURSIVE Strings(_)
Strings(n) ==
  IF n = 0 THEN {<<>>}
  ELSE Strings(n - 1) \cup { Append(x, c) : x \in Strings(n - 1), c \in DataChars }

Payloads ==
  {NoPayload}
  \cup { Payload(TRUE, TRUE, x, e) : x \in Strings(MaxDataLen), e \in BOOLEAN }
  \cup { Payload(TRUE, FALSE, <<>>, e) : e \in BOOLEAN }

InitFetcher ==
  /\ token = [set |-> TRUE, value |-> "tok"]
  /\ disk = <<>>
  /\ pc = "fetcher"
  /\ error = ""
  /\ exitCode = -1
  /\ teamId = "null"
  /\ deployment = NoDeployment
  /\ files = <<>>
  /\ totalFileTreeLength = -1
  /\ stdout = <<>>
  /\ stderr = <<>>
  /\ apiCalls = <<>>
  /\ stack = <<>>
  /\ inflightFetch = {}
  /\ inflightWrite = {}
  /\ run = 1
  /\ disk0 = disk
  /\ diskRun1 = disk
  /\ mkdirs = {}
  /\ skipped = {}
  /\ fetched = {}
  /\ fetchFailed = {}
  /\ writes = {}
  /\ payload \in Payloads
  /\ fetchResult = NoResult

ApplyFetcher ==
  /\ pc = "fetcher"
  /\ pc' = "fetcherDone"
  /\ fetchResult' = fileContentFetcher(FileEntry(1, "u1"), payload)
  /\ UNCHANGED <<token, payload, disk, error, exitCode, teamId, deployment, files,
                 totalFileTreeLength, stdout, stderr, apiCalls, walkVars, histVars>>

NextFetcher == ApplyFetcher

SpecFetcher == InitFetcher /\ [][NextFetcher]_vars

(***************************************************************************)
(* What the properties speak of, read off the tree and the outputs.        *)
(***************************************************************************)
Range(q) == { q[i] : i \in 1..Len(q) }

\* the entries of a tree in depth-first pre-order, each with the path composed from
\* the names of its ancestors and its own
RECURSIVE PreOrder(_, _)
PreOrder(fileTree, path) ==
  IF fileTree = <<>> THEN <<>>
  ELSE LET e == Head(fileTree)
           p == Append(path, e.name)
       IN <<[path |-> p, entry |-> e]>>
          \o (IF e.type = "directory" /\ e.hasChildren THEN PreOrder(e.children, p) ELSE <<>>)
          \o PreOrder(Tail(fileTree), path)

\* the entries the calls in progress have still to process, in order
RECURSIVE Pending(_)
Pending(s) ==
  IF s = <<>> THEN <<>>
  ELSE LET t == s[Len(s)]
       IN PreOrder(SubSeq(t.fileTree, t.i, Len(t.fileTree)), t.path) \o Pending(Front(s))

AllNodes == Range(PreOrder(files, <<>>))

FileNodes == { n \in AllNodes : n.entry.type = "file" }

DirNodes == { n \in AllNodes : n.entry.type = "directory" }

\* getDeploymentFiles returned and parseFileTree was called
Walked == totalFileTreeLength >= 0

\* parseFileTree returned and init() resolved
Completed == Walked /\ pc = "exited" /\ error = ""

\* the walk was cut short or completed, and the process is over
Ended == Walked /\ pc = "exited"

Now(h) == { x \in h : x.run = run }

Paths(h) == { x.path : x \in h }

MkdirThrew == \E m \in Now(mkdirs) : m.threw

WriteFailed == \E w \in Now(writes) : w.outcome # "ok"

FailureLines == SelectSeq(stderr, LAMBDA l : l.tag = "Failed to download")

ProgressLines == SelectSeq(stdout, LAMBDA l : l.tag = "Downloading:")

ProgressPaths == [i \in 1..Len(ProgressLines) |-> ProgressLines[i].path]

PathsOf(q) == [i \in 1..Len(q) |-> q[i].path]

IsPrefix(a, b) == Len(a) <= Len(b) /\ a = SubSeq(b, 1, Len(a))

\* the bytes of the files the content endpoint serves: "hi" for u1, "a" for u3
ServedBytes(uid) == IF uid = "u1" THEN <<104, 105>> ELSE <<97>>

(***************************************************************************)
(* C1.  A failure to fetch or to write one file entry is caught inside     *)
(* downloadFile and logged with the file name, and does not abort the      *)
(* walk: parseFileTree does not raise, every file entry of the tree is     *)
(* processed, and every failed entry has its line on standard error.       *)
(* (A throw of mkdirSync is no file failure and is left out.)              *)
(***************************************************************************)
C1_FileFailureDoesNotAbort ==
  (Walked /\ ~MkdirThrew) =>
    /\ pc # "rejected"
    /\ pc = "exited" =>
         /\ error = ""
         /\ \A n \in FileNodes :
              n.path \in Paths(Now(skipped)) \cup Paths(Now(fetched)) \cup Paths(Now(fetchFailed))
         /\ \A w \in Now(writes) :
              w.outcome # "ok" =>
                \E l \in Range(FailureLines) : l.text[1] = w.path[Len(w.path)]
         /\ \A g \in Now(fetchFailed) :
              \E l \in Range(FailureLines) : l.text[1] = g.name

(***************************************************************************)
(* C2.  When parseFileTree has ended and every writeFile succeeded (and no *)
(* mkdirSync threw), the run was not aborted; every entry whose fetch      *)
(* succeeded is a file on disk at its composed path holding exactly the    *)
(* fetched bytes, which are the bytes the server holds; every entry whose  *)
(* fetch failed has a failure line with its name, was never written, and   *)
(* its path is as it was before the run.                                   *)
(***************************************************************************)
C2_FetchFailureIsolated ==
  (Ended /\ ~WriteFailed /\ ~MkdirThrew) =>
    /\ error = ""
    /\ Len(FailureLines) = Cardinality(Now(fetchFailed))
    /\ \A n \in FileNodes :
         \/ n.path \in Paths(Now(skipped))
         \/ /\ n.entry.uid \in {"u1", "u3"}
            /\ \E f \in Now(fetched) : f.path = n.path /\ f.body = ServedBytes(n.entry.uid)
            /\ existsSync(disk, n.path)
            /\ disk[n.path] = File(ServedBytes(n.entry.uid))
         \/ /\ n.entry.uid = "u2"
            /\ n.path \in Paths(Now(fetchFailed))
            /\ \E l \in Range(FailureLines) : l.text[1] = n.entry.name
            /\ n.path \notin Paths(Now(writes))
            /\ existsSync(disk, n.path) = existsSync(disk0, n.path)
            /\ existsSync(disk, n.path) => disk[n.path] = disk0[n.path]

\* a tree of three files, the fetch of one of them failing, has ended
C2_Witness ==
  /\ Ended /\ ~WriteFailed /\ ~MkdirThrew
  /\ Cardinality(FileNodes) = 3
  /\ Cardinality(Now(fetchFailed)) = 1
  /\ Cardinality(Now(fetched)) = 2
  /\ \E f, g \in Now(fetched) : f.body # g.body

(***************************************************************************)
(* C3.  When the process has ended after init() rejected (a missing token, *)
(* an API error, a prompt abort, ...), the error is on standard error and  *)
(* the exit status is not 0; the status is 0 only after a normal           *)
(* completion or the git source guard.                                     *)
(***************************************************************************)
C3_ErrorsExitNonZero ==
  pc = "exited" =>
    /\ error # "" => (exitCode # 0 /\ Line("error", <<>>, <<error>>) \in Range(stderr))
    /\ exitCode = 0 => error = ""

(***************************************************************************)
(* C4.  Once a deployment whose source is git is selected, the guard has   *)
(* printed the GitHub tree URL when meta.githubCommitRepo is there and     *)
(* the inspectorUrl otherwise, the process has exited with code 0, and no  *)
(* file tree request, no file content request and no change of the disk    *)
(* has happened or happens afterwards.                                     *)
(***************************************************************************)
C4_GitGuardStops ==
  (deployment.defined /\ deployment.source = "git") =>
    /\ pc = "exited"
    /\ exitCode = 0
    /\ Len(stdout) >= 1
    /\ stdout[Len(stdout)] =
         (IF deployment.hasMeta /\ deployment.meta.githubCommitRepo = "repo"
          THEN Line("View Source on GitHub", <<>>,
                    <<"https://github.com/", "org", "/", "repo", "/tree/", "sha">>)
          ELSE Line("View Source on Vercel", <<>>, <<deployment.inspectorUrl>>))
    /\ \A i \in 1..Len(apiCalls) : apiCalls[i].api \notin {"files", "content"}
    /\ disk = disk0
    /\ stderr = <<>>

C4_Witness ==
  /\ deployment.defined /\ deployment.source = "git"
  /\ deployment.hasMeta /\ deployment.meta.githubCommitRepo = "repo"
  /\ pc = "exited"
  /\ DOMAIN disk # {}

(***************************************************************************)
(* C5.  Starting from an empty output directory, whatever the fetches and  *)
(* the writes did, the directories below the output directory when         *)
(* parseFileTree has ended are exactly the paths of the directory entries  *)
(* of the tree.                                                            *)
(***************************************************************************)
C5_DirectoriesMatchTree ==
  (Ended /\ DOMAIN disk0 = {<<>>}) =>
    { p \in DOMAIN disk : p # <<>> /\ isDirectory(disk, p) } = Paths(DirNodes)

(***************************************************************************)
(* C6.  As claimed: countFileTreeLength(tree) is the number of entries of  *)
(* the tree that are not directories.                                      *)
(***************************************************************************)
C6_CountsNonDirectories ==
  Walked => totalFileTreeLength = Cardinality(AllNodes \ DirNodes)

(***************************************************************************)
(* C6, amended.  countFileTreeLength(tree) is the number of entries of the *)
(* tree that are not directories, plus the number of directory entries     *)
(* that have no children field: a directory contributes 0 itself only when *)
(* it carries a children list (empty or not).                              *)
(***************************************************************************)
C6_CountsLeaves ==
  Walked =>
    totalFileTreeLength =
      Cardinality(AllNodes \ DirNodes) + Cardinality({ n \in DirNodes : ~n.entry.hasChildren })

\* a tree with a file in a directory, and a directory without a children field
C6_Witness ==
  /\ Walked
  /\ \E n \in DirNodes : ~n.entry.hasChildren
  /\ \E n \in DirNodes : n.entry.hasChildren /\ n.entry.children # <<>>
  /\ \E n \in FileNodes : Len(n.path) = 2

(***************************************************************************)
(* C7.  When downloadFile is called for a file entry whose target path     *)
(* exists on disk as a directory, that step fetches nothing, starts no     *)
(* write, prints no line on either stream, raises nothing and leaves the   *)
(* whole disk as it is, and the walk goes on with the next entry.          *)
(***************************************************************************)
C7_NextCollides ==
  /\ pc = "parse"
  /\ Settled
  /\ Pending(stack) # <<>>
  /\ LET n == Head(Pending(stack))
     IN n.entry.type = "file" /\ n.path \in DOMAIN disk /\ disk[n.path].kind = "dir"

C7_CollisionSkips ==
  [][ C7_NextCollides =>
        /\ disk' = disk
        /\ stdout' = stdout
        /\ stderr' = stderr
        /\ apiCalls' = apiCalls
        /\ inflightFetch' = {}
        /\ inflightWrite' = {}
        /\ pc' = "parse"
        /\ Pending(stack') = Tail(Pending(stack)) ]_vars

\* a file entry was skipped on a directory and a later entry was downloaded
C7_Witness ==
  /\ Completed
  /\ \E k \in Now(skipped) : k.path \in DOMAIN disk /\ disk[k.path].kind = "dir"
  /\ Now(fetched) # {}
  /\ \E w \in Now(writes) : w.outcome = "ok"

(***************************************************************************)
(* C8.  With a content fetch that returns the same bytes for the same uid  *)
(* and no writeFile that fails where it can succeed, a second call of      *)
(* parseFileTree on the same tree and output directory creates no          *)
(* directory, rewrites files only with the content they already hold, and  *)
(* leaves the disk as the first call left it.                              *)
(***************************************************************************)
Transient == \E w \in writes : w.outcome # "ok" /\ ~w.forced

C8_SecondRunIsFixedPoint ==
  (run = 2 /\ pc = "exited" /\ ~Transient) =>
    /\ disk = diskRun1
    /\ \A m \in Now(mkdirs) : m.threw
    /\ \A w \in Now(writes) : w.outcome = "ok" => w.same

\* both calls completed on a tree with a directory and a file that was written
C8_Witness ==
  /\ run = 2 /\ pc = "exited" /\ error = "" /\ ~Transient
  /\ \E m \in mkdirs : m.run = 1 /\ ~m.threw
  /\ \E w \in Now(writes) : w.outcome = "ok" /\ Len(w.path) = 2

(***************************************************************************)
(* C9.  As claimed: at most one content request or file write is in        *)
(* flight, and when parseFileTree has completed the progress lines are the *)
(* file entries of the tree in pre-order.                                  *)
(***************************************************************************)
InFlightAtMostOne == Cardinality(inflightFetch) + Cardinality(inflightWrite) <= 1

IsFileNode(n) == n.entry.type = "file"

C9_ProgressIsAllFiles ==
  Walked =>
    /\ InFlightAtMostOne
    /\ Completed => ProgressPaths = PathsOf(SelectSeq(PreOrder(files, <<>>), IsFileNode))

(***************************************************************************)
(* C9, amended.  parseFileTree processes the entries one at a time in      *)
(* depth-first pre-order: what is left to process is always a suffix of    *)
(* the pre-order sequence, every ancestor of the next entry exists on disk *)
(* before the entry is processed, at most one content request or file      *)
(* write is in flight, and the progress lines are the pre-order sequence   *)
(* of the processed file entries whose target path was not a directory     *)
(* before the call (those are skipped without a line); when the walk is    *)
(* cut short the lines are a prefix of that sequence.                      *)
(***************************************************************************)
IsDownloadedNode(n) ==
  n.entry.type = "file" /\ ~(n.path \in DOMAIN disk0 /\ disk0[n.path].kind = "dir")

C9_SequentialPreOrder ==
  Walked =>
    LET all == PreOrder(files, <<>>)
        left == Pending(stack)
        done == SubSeq(all, 1, Len(all) - Len(left))
    IN /\ InFlightAtMostOne
       /\ IsPrefix(ProgressPaths, PathsOf(SelectSeq(all, IsDownloadedNode)))
       /\ (pc = "parse" \/ Completed) =>
            /\ left = SubSeq(all, Len(all) - Len(left) + 1, Len(all))
            /\ ProgressPaths = PathsOf(SelectSeq(done, IsDownloadedNode))
            /\ left # <<>> =>
                 \A q \in Prefixes(Head(left).path) \ {Head(left).path} : existsSync(disk, q)
            /\ \A f \in inflightFetch \cup inflightWrite :
                 f.path = ProgressPaths[Len(ProgressPaths)]

\* a completed walk that skipped a file entry on a directory and downloaded two
C9_Witness ==
  /\ Completed
  /\ Now(skipped) # {}
  /\ Len(ProgressPaths) = 2

(***************************************************************************)
(* C10.  Whenever the response payload has a data field and no error       *)
(* field, the fetcher returns the base64-decoded bytes of data, whatever   *)
(* data is; it throws only when the payload has an error field or has      *)
(* neither field.                                                          *)
(***************************************************************************)
C10_DataFieldMeansSuccess ==
  (pc = "fetcherDone" /\ payload.arrived) =>
    /\ (payload.hasData /\ ~payload.hasError) =>
         (~fetchResult.threw /\ fetchResult.body = BufferFromBase64(payload.data))
    /\ fetchResult.threw => (payload.hasError \/ ~payload.hasData)

====
